---- MODULE Spec2Model ----
(***************************************************************************)
(* A model of identification/helpers.py: ParamHelpers (consistency checks, *)
(* inertia (de)vectorization, link-frame <-> barycentric conversion,       *)
(* friction placement) and URDFHelpers (URDF write-back, friction read,    *)
(* mesh bounding box).                                                     *)
(*                                                                         *)
(* Numbers.  Every float of the program is modelled by an exact rational   *)
(* <<n, d>> in lowest terms with d > 0; the three non-finite floats are    *)
(* <<1,0>> (inf), <<-1,0>> (-inf) and <<0,0>> (nan).  Rounding is not      *)
(* modelled: an equality that holds here holds in the program up to        *)
(* floating-point tolerance, an equality that fails here fails there by    *)
(* far more than rounding.                                                 *)
(*                                                                         *)
(* Indices.  Python indices are 0-based, TLA+ sequences 1-based: At, Upd   *)
(* and the matrix accessors take the Python index.                         *)
(***************************************************************************)
EXTENDS Integers, Sequences, FiniteSets, TLC

VARIABLES
    pc,        \* position of the calling script
    opt,       \* the options dictionary (self.opt / model.opt)
    model,     \* the topology (self.model)
    heap,      \* the numpy arrays alive: heap[r] is the content of array r
    made,      \* the conversions made so far: [op, arg, ret, before]
    cur,       \* the array the caller holds last
    argv,      \* the array passed to the last call
    v6,        \* a six-vector handed to invvech
    tensor,    \* the 3x3 matrix invvech returned
    vec,       \* the six-vector vech returned
    per_link,  \* the values per link of the vector the caller holds (4 or 10)
    cons,      \* what checkPhysicalConsistency returned, with its full argument
    consNT,    \* what checkPhysicalConsistencyNoTriangle returned, with its full argument
    urdf,      \* the robot description document (input_urdf)
    outFile,   \* the written document (output_urdf)
    exit,      \* how the last call on the document ended
    mesh,      \* the mesh file of the link, on disk or not
    mesh_scaling, \* self.mesh_scaling
    old_com,   \* the prior center of mass handed to getBoundingBox
    bbox       \* what getBoundingBox returned

cfgVars == <<opt, model>>

convVars == <<heap, made, cur, argv, per_link>>

vechVars == <<v6, tensor, vec>>

consVars == <<cons, consNT>>

urdfVars == <<urdf, outFile, exit>>

meshVars == <<mesh, mesh_scaling, old_com, bbox>>

vars == <<pc, cfgVars, convVars, vechVars, consVars, urdfVars, meshVars>>

----------------------------------------------------------------------------
(* Bounds of the model *)

MaxVal == 1        \* entries of a six-vector range over -MaxVal..MaxVal

MaxLinks == 2      \* a topology has 1..MaxLinks links

MaxMass == 2       \* a link's mass ranges over 0..MaxMass

MaxCalls == 2      \* the script chains at most MaxCalls conversions

MaxDofs == 2       \* a topology has 1..MaxDofs joints

MaxScale == 1      \* a mesh scale factor ranges over -MaxScale..MaxScale

----------------------------------------------------------------------------
(* Floats as exact rationals *)

Abs(n) == IF n < 0 THEN -n ELSE n

Sign(n) == IF n < 0 THEN -1 ELSE IF n > 0 THEN 1 ELSE 0

RECURSIVE GCD(_, _)
GCD(a, b) == IF b = 0 THEN a ELSE GCD(b, a % b)

Norm(n, d) ==
    IF d = 1 THEN <<n, 1>>
    ELSE IF d = 0 THEN <<Sign(n), 0>>
    ELSE LET g == GCD(Abs(n), Abs(d))
             s == Sign(d)
         IN  <<(s * n) \div g, (s * d) \div g>>

R(n) == <<n, 1>>

Zero == R(0)

NaN == <<0, 0>>

IsFinite(a) == a[2] # 0

RAdd(a, b) == Norm(a[1] * b[2] + b[1] * a[2], a[2] * b[2])

RSub(a, b) == Norm(a[1] * b[2] - b[1] * a[2], a[2] * b[2])

RMul(a, b) == Norm(a[1] * b[1], a[2] * b[2])

\* float division: x/0 is inf, -inf or nan (numpy warns, it does not raise)
RDiv(a, b) ==
    IF ~IsFinite(a) \/ ~IsFinite(b) THEN NaN
    ELSE IF b[1] = 0 THEN <<Sign(a[1]), 0>>
    ELSE Norm(a[1] * b[2], a[2] * b[1])

RLt(a, b) == IsFinite(a) /\ IsFinite(b) /\ a[1] * b[2] < b[1] * a[2]

RLe(a, b) == IsFinite(a) /\ IsFinite(b) /\ a[1] * b[2] <= b[1] * a[2]

RGt(a, b) == RLt(b, a)

----------------------------------------------------------------------------
(* Sequences and matrices with Python indices *)

At(s, i) == s[i + 1]

Upd(s, i, x) == [s EXCEPT ![i + 1] = x]

\* s[a:b], clipped to the sequence as Python clips a slice
Slice(s, a, b) ==
    LET hi == IF b < Len(s) THEN b ELSE Len(s)
    IN  IF a >= hi THEN <<>> ELSE [k \in 1..(hi - a) |-> s[a + k]]

zeros3x3 == <<<<Zero, Zero, Zero>>, <<Zero, Zero, Zero>>, <<Zero, Zero, Zero>>>>

zeros6 == <<Zero, Zero, Zero, Zero, Zero, Zero>>

MGet(m, r, c) == m[r + 1][c + 1]

MSet(m, r, c, x) == [m EXCEPT ![r + 1][c + 1] = x]

----------------------------------------------------------------------------
(* ParamHelpers.invvech, ParamHelpers.vech *)

invvech(params) ==
    LET t0 == zeros3x3
        t1 == MSet(t0, 0, 0, At(params, 0))
        t2 == MSet(MSet(t1, 0, 1, At(params, 1)), 1, 0, At(params, 1))
        t3 == MSet(MSet(t2, 0, 2, At(params, 2)), 2, 0, At(params, 2))
        t4 == MSet(t3, 1, 1, At(params, 3))
        t5 == MSet(MSet(t4, 1, 2, At(params, 4)), 2, 1, At(params, 4))
        t6 == MSet(t5, 2, 2, At(params, 5))
    IN  t6

\* a row-major slip: entries 2 and 3 read from (1,1) and (0,2)
vech_slip(params) ==
    <<MGet(params, 0, 0), MGet(params, 0, 1), MGet(params, 1, 1),
      MGet(params, 0, 2), MGet(params, 1, 2), MGet(params, 2, 2)>>

vech(params) ==
    <<MGet(params, 0, 0), MGet(params, 0, 1), MGet(params, 0, 2),
      MGet(params, 1, 1), MGet(params, 1, 2), MGet(params, 2, 2)>>

----------------------------------------------------------------------------
(* The rigid-body primitive (iDynTree), as the specification describes it:  *)
(* a spatial inertia holds the mass, the first moment mass*com and the      *)
(* rotational inertia about the frame origin.                               *)

PositionRaw(x, y, z) == <<x, y, z>>

\* S(v)^2 = v v^T - |v|^2 1, the square of the cross-product matrix of v
squareCrossProductMatrix(v) ==
    LET x == v[1]
        y == v[2]
        z == v[3]
    IN  << <<RSub(Zero, RAdd(RMul(y, y), RMul(z, z))), RMul(x, y), RMul(x, z)>>,
           <<RMul(x, y), RSub(Zero, RAdd(RMul(x, x), RMul(z, z))), RMul(y, z)>>,
           <<RMul(x, z), RMul(y, z), RSub(Zero, RAdd(RMul(x, x), RMul(y, y)))>> >>

MAdd(a, b) == [r \in 1..3 |-> [c \in 1..3 |-> RAdd(a[r][c], b[r][c])]]

MSub(a, b) == [r \in 1..3 |-> [c \in 1..3 |-> RSub(a[r][c], b[r][c])]]

MScale(k, a) == [r \in 1..3 |-> [c \in 1..3 |-> RMul(k, a[r][c])]]

VScale(k, v) == <<RMul(k, v[1]), RMul(k, v[2]), RMul(k, v[3])>>

\* SpatialInertia(mass, com, rotInertia): rotInertia is about the frame origin
SpatialInertia(mass, com, rotInertia) ==
    [mass |-> mass, mcom |-> VScale(mass, com), rotInertia |-> rotInertia]

\* SpatialInertia.fromVector: mass, first moment, inertia about the origin
\* in the order xx, xy, xz, yy, yz, zz
fromVector(p_vec) ==
    [mass |-> p_vec[1],
     mcom |-> <<p_vec[2], p_vec[3], p_vec[4]>>,
     rotInertia |-> << <<p_vec[5], p_vec[6], p_vec[7]>>,
                       <<p_vec[6], p_vec[8], p_vec[9]>>,
                       <<p_vec[7], p_vec[9], p_vec[10]>> >>]

\* inertia about the origin minus the parallel-axis correction
\* m(|c|^2 1 - c c^T) = -S(mc)^2 / m; a massless body has no correction
getRotationalInertiaWrtCenterOfMass(si) ==
    IF si.mass # Zero
    THEN MAdd(si.rotInertia,
              MScale(RDiv(R(1), si.mass), squareCrossProductMatrix(si.mcom)))
    ELSE si.rotInertia

\* built from the inertia about the center of mass: the origin inertia is
\* that plus the parallel-axis correction for the given center of mass
fromRotationalInertiaWrtCenterOfMass(mass, com, rotInertiaWrtCom) ==
    [mass |-> mass, mcom |-> VScale(mass, com),
     rotInertia |-> MSub(rotInertiaWrtCom,
                         MScale(mass, squareCrossProductMatrix(com)))]

getRotationalInertiaWrtFrameOrigin(si) == si.rotInertia

----------------------------------------------------------------------------
(* ParamHelpers.inertiaParams2RotationalInertiaRaw *)

inertiaParams2RotationalInertiaRaw(params) ==
    LET t0 == zeros3x3
        t1 == MSet(t0, 0, 0, At(params, 0))
        t2 == MSet(MSet(t1, 0, 1, At(params, 1)), 1, 0, At(params, 1))
        t3 == MSet(MSet(t2, 0, 2, At(params, 2)), 2, 0, At(params, 2))
        t4 == MSet(t3, 1, 1, At(params, 3))
        t5 == MSet(MSet(t4, 1, 2, At(params, 4)), 2, 1, At(params, 4))
        t6 == MSet(t5, 2, 2, At(params, 5))
    IN  t6

----------------------------------------------------------------------------
(* numpy arrays: a call that copies allocates, a call that writes a slot   *)
(* writes the array it holds.                                               *)

\* params.copy() returning its own argument
npcopy_alias(h, r) == [heap |-> h, ref |-> r]

\* params.copy()
npcopy(h, r) == [heap |-> Append(h, h[r]), ref |-> Len(h) + 1]

\* the six inertia slots of link i written from a 3x3 matrix
SetInertia(p, i, m) ==
    LET p4 == Upd(p, i + 4, MGet(m, 0, 0))
        p5 == Upd(p4, i + 5, MGet(m, 0, 1))
        p6 == Upd(p5, i + 6, MGet(m, 0, 2))
        p7 == Upd(p6, i + 7, MGet(m, 1, 1))
        p8 == Upd(p7, i + 8, MGet(m, 1, 2))
        p9 == Upd(p8, i + 9, MGet(m, 2, 2))
    IN  p9

----------------------------------------------------------------------------
(* ParamHelpers.paramsLink2Bary *)

\* the loop body without the zero-mass branch: the division is always made
Link2BaryLink_nobranch(params, i) ==
    LET link_mass == At(params, i)
        com_x == At(params, i + 1)
        com_y == At(params, i + 2)
        com_z == At(params, i + 3)
        p1 == Upd(Upd(Upd(params, i + 1, RDiv(com_x, link_mass)),
                      i + 2, RDiv(com_y, link_mass)),
                  i + 3, RDiv(com_z, link_mass))
        p_com == PositionRaw(At(p1, i + 1), At(p1, i + 2), At(p1, i + 3))
        rot_inertia_origin ==
            inertiaParams2RotationalInertiaRaw(Slice(p1, i + 4, i + 10))
        s_inertia == SpatialInertia(link_mass, p_com, rot_inertia_origin)
        rot_inertia_com == getRotationalInertiaWrtCenterOfMass(s_inertia)
    IN  SetInertia(p1, i, rot_inertia_com)

\* the body of the loop for the link whose slot starts at i
Link2BaryLink(params, i) ==
    LET link_mass == At(params, i)
        com_x == At(params, i + 1)
        com_y == At(params, i + 2)
        com_z == At(params, i + 3)
        p1 == IF link_mass # Zero
              THEN Upd(Upd(Upd(params, i + 1, RDiv(com_x, link_mass)),
                           i + 2, RDiv(com_y, link_mass)),
                       i + 3, RDiv(com_z, link_mass))
              ELSE Upd(Upd(Upd(params, i + 3, Zero), i + 2, Zero), i + 1, Zero)
        p_com == PositionRaw(At(p1, i + 1), At(p1, i + 2), At(p1, i + 3))
        rot_inertia_origin ==
            inertiaParams2RotationalInertiaRaw(Slice(p1, i + 4, i + 10))
        s_inertia == SpatialInertia(link_mass, p_com, rot_inertia_origin)
        rot_inertia_com == getRotationalInertiaWrtCenterOfMass(s_inertia)
    IN  SetInertia(p1, i, rot_inertia_com)

RECURSIVE Link2BaryLoop(_, _)
Link2BaryLoop(params, i) ==
    IF i >= Len(params) THEN params
    ELSE IF (i % 10 = 0) /\ i < model.num_model_params
         THEN Link2BaryLoop(Link2BaryLink(params, i), i + 1)
         ELSE Link2BaryLoop(params, i + 1)

paramsLink2Bary(h, r) ==
    LET c == npcopy(h, r)
    IN  [heap |-> [c.heap EXCEPT ![c.ref] = Link2BaryLoop(c.heap[c.ref], 0)],
         ret |-> c.ref]

----------------------------------------------------------------------------
(* ParamHelpers.paramsBary2Link *)

Bary2LinkLink(params, i) ==
    LET link_mass == At(params, i)
        com_x == At(params, i + 1)
        com_y == At(params, i + 2)
        com_z == At(params, i + 3)
        p1 == Upd(Upd(Upd(params, i + 1, RMul(com_x, link_mass)),
                      i + 2, RMul(com_y, link_mass)),
                  i + 3, RMul(com_z, link_mass))
        \* read after the three writes above: the first moment
        p_com == PositionRaw(At(p1, i + 1), At(p1, i + 2), At(p1, i + 3))
        rot_inertia_com ==
            inertiaParams2RotationalInertiaRaw(Slice(p1, i + 4, i + 10))
        s_inertia ==
            fromRotationalInertiaWrtCenterOfMass(link_mass, p_com, rot_inertia_com)
        rot_inertia == getRotationalInertiaWrtFrameOrigin(s_inertia)
    IN  SetInertia(p1, i, rot_inertia)

RECURSIVE Bary2LinkLoop(_, _)
Bary2LinkLoop(params, i) ==
    IF i >= Len(params) THEN params
    ELSE IF (i % 10 = 0) /\ i < model.num_model_params
         THEN Bary2LinkLoop(Bary2LinkLink(params, i), i + 1)
         ELSE Bary2LinkLoop(params, i + 1)

paramsBary2Link(h, r) ==
    LET c == npcopy(h, r)
    IN  [heap |-> [c.heap EXCEPT ![c.ref] = Bary2LinkLoop(c.heap[c.ref], 0)],
         ret |-> c.ref]

----------------------------------------------------------------------------
(* Definiteness of a symmetric 3x3 matrix *)

Det2(m, i, j) ==
    RSub(RMul(MGet(m, i, i), MGet(m, j, j)), RMul(MGet(m, i, j), MGet(m, j, i)))

Det3(m) ==
    LET a == MGet(m, 0, 0)
        b == MGet(m, 0, 1)
        c == MGet(m, 0, 2)
        cof0 == RSub(RMul(MGet(m, 1, 1), MGet(m, 2, 2)), RMul(MGet(m, 1, 2), MGet(m, 2, 1)))
        cof1 == RSub(RMul(MGet(m, 1, 0), MGet(m, 2, 2)), RMul(MGet(m, 1, 2), MGet(m, 2, 0)))
        cof2 == RSub(RMul(MGet(m, 1, 0), MGet(m, 2, 1)), RMul(MGet(m, 1, 1), MGet(m, 2, 0)))
    IN  RAdd(RSub(RMul(a, cof0), RMul(b, cof1)), RMul(c, cof2))

\* Sylvester: the leading principal minors are positive
PositiveDefinite(m) ==
    /\ RGt(MGet(m, 0, 0), Zero)
    /\ RGt(Det2(m, 0, 1), Zero)
    /\ RGt(Det3(m), Zero)

\* every principal minor is non-negative
PositiveSemiDefinite(m) ==
    /\ \A i \in 0..2 : RLe(Zero, MGet(m, i, i))
    /\ RLe(Zero, Det2(m, 0, 1)) /\ RLe(Zero, Det2(m, 0, 2)) /\ RLe(Zero, Det2(m, 1, 2))
    /\ RLe(Zero, Det3(m))

Identity3 == <<<<R(1), Zero, Zero>>, <<Zero, R(1), Zero>>, <<Zero, Zero, R(1)>>>>

Trace(m) == RAdd(RAdd(MGet(m, 0, 0), MGet(m, 1, 1)), MGet(m, 2, 2))

\* each principal moment is at most the sum of the other two: the largest
\* eigenvalue is at most half the trace, i.e. (tr/2) 1 - m has no negative
\* eigenvalue
TriangleInequality(m) ==
    PositiveSemiDefinite(MSub(MScale(RDiv(Trace(m), R(2)), Identity3), m))

\* SpatialInertia.isPhysicallyConsistent: positive mass, inertia about the
\* center of mass positive-definite, triangle inequality on its principal
\* moments
isPhysicallyConsistent(si) ==
    /\ RGt(si.mass, Zero)
    /\ PositiveDefinite(getRotationalInertiaWrtCenterOfMass(si))
    /\ TriangleInequality(getRotationalInertiaWrtCenterOfMass(si))

\* np.linalg.cholesky(a): the factorization of the lower triangle, column by
\* column; it raises LinAlgError at the first pivot that is not positive.
\* TRUE when it returns.  (The pivots are the squares of L's diagonal.)
cholesky(a) ==
    LET p1 == MGet(a, 0, 0)
        p2 == RSub(MGet(a, 1, 1), RDiv(RMul(MGet(a, 1, 0), MGet(a, 1, 0)), p1))
        \* L[2,1] * sqrt(p2)
        w == RSub(MGet(a, 2, 1), RDiv(RMul(MGet(a, 2, 0), MGet(a, 1, 0)), p1))
        p3 == RSub(RSub(MGet(a, 2, 2), RDiv(RMul(MGet(a, 2, 0), MGet(a, 2, 0)), p1)),
                   RDiv(RMul(w, w), p2))
    IN  /\ RGt(p1, Zero)
        /\ RGt(p2, Zero)
        /\ RGt(p3, Zero)

----------------------------------------------------------------------------
(* ParamHelpers.inertiaTensorFromParams *)

RECURSIVE TensorsLoop_shift(_, _, _)
TensorsLoop_shift(params, i, tensors) ==
    IF i >= Len(params) THEN tensors
    ELSE IF (i % 10 = 0) /\ i < model.num_model_params
         THEN TensorsLoop_shift(params, i + 1,
                                Append(tensors, invvech(Slice(params, i + 3, i + 9))))
         ELSE TensorsLoop_shift(params, i + 1, tensors)

RECURSIVE TensorsLoop(_, _, _)
TensorsLoop(params, i, tensors) ==
    IF i >= Len(params) THEN tensors
    ELSE IF (i % 10 = 0) /\ i < model.num_model_params
         THEN TensorsLoop(params, i + 1,
                          Append(tensors, invvech(Slice(params, i + 4, i + 10))))
         ELSE TensorsLoop(params, i + 1, tensors)

\* the slice one slot early: params[i+3:i+9]
inertiaTensorFromParams_shift(params) == TensorsLoop_shift(params, 0, <<>>)

inertiaTensorFromParams(params) == TensorsLoop(params, 0, <<>>)

----------------------------------------------------------------------------
(* ParamHelpers.checkPhysicalConsistency, checkPhysicalConsistencyNoTriangle *)

\* the indices the full-mode loops stop at: for each link (and not friction)
FullStarts(params) ==
    {i \in 0..(Len(params) - 1) : (i % 10 = 0) /\ i < model.num_model_params}

checkPhysicalConsistency(params, full) ==
    IF opt.identifyGravityParamsOnly /\ ~full
    THEN [i \in 0..(model.num_links - 1) |-> RGt(At(params, i * 4), Zero)]
    ELSE [k \in {i \div 10 : i \in FullStarts(params)} |->
            isPhysicallyConsistent(fromVector(Slice(params, 10 * k, 10 * k + 10)))]

checkPhysicalConsistencyNoTriangle(params, full) ==
    IF opt.identifyGravityParamsOnly /\ ~full
    THEN [i \in 0..(model.num_links - 1) |-> RGt(At(params, i * 4), Zero)]
    ELSE LET tensors == inertiaTensorFromParams(params)
         IN  [k \in {i \div 10 : i \in FullStarts(params)} |->
                IF RLe(At(params, 10 * k), Zero) THEN FALSE
                ELSE cholesky(At(tensors, k))]

\* isPhysicalConsistent: no link fails the relaxed check
isPhysicalConsistent(params) ==
    LET c == checkPhysicalConsistencyNoTriangle(params, FALSE)
    IN  ~(\E k \in DOMAIN c : c[k] = FALSE)

----------------------------------------------------------------------------
(* The robot description document.  An attribute value is text: Fmt is     *)
(* '{}'.format(x), ParseFloat is float(text).  A joint or link name is     *)
(* modelled by its rank in the order sorted() puts names in.               *)

Fmt(x) == [repr |-> x]

ParseFloat(text) == text.repr

\* list.index(x): the first position holding x, 0-based
IndexOf(seq, x) == (CHOOSE k \in 1..Len(seq) :
                       seq[k] = x /\ \A m \in 1..(k - 1) : seq[m] # x) - 1

Contains(seq, x) == \E k \in 1..Len(seq) : seq[k] = x

\* sorted(keys)
RECURSIVE Sorted(_)
Sorted(S) ==
    IF S = {} THEN <<>>
    ELSE LET m == CHOOSE x \in S : \A y \in S : x <= y
         IN  <<m>> \o Sorted(S \ {m})

\* the keys in descending order
RECURSIVE Sorted_desc(_)
Sorted_desc(S) ==
    IF S = {} THEN <<>>
    ELSE LET m == CHOOSE x \in S : \A y \in S : x >= y
         IN  <<m>> \o Sorted_desc(S \ {m})

----------------------------------------------------------------------------
(* URDFHelpers.getJointFriction *)

\* the entry of one joint element: friction and damping default to 0
JointFrictionEntry(j) ==
    LET constant == IF "friction" \in DOMAIN j.dynamics.attrib
                    THEN j.dynamics.attrib["friction"] ELSE Fmt(Zero)
        vel_dependent == IF "damping" \in DOMAIN j.dynamics.attrib
                         THEN j.dynamics.attrib["damping"] ELSE Fmt(Zero)
    IN  [f_constant |-> ParseFloat(constant), f_velocity |-> ParseFloat(vel_dependent)]

\* the dictionary: one entry per revolute joint that has a dynamics element
getJointFriction(input_urdf) ==
    LET js == {k \in 1..Len(input_urdf.joints) :
                  /\ input_urdf.joints[k].type = "revolute"
                  /\ input_urdf.joints[k].dynamics.present}
    IN  [name \in {input_urdf.joints[k].name : k \in js} |->
            JointFrictionEntry(
                input_urdf.joints[
                    CHOOSE k \in js :
                        /\ input_urdf.joints[k].name = name
                        /\ \A m \in js : input_urdf.joints[m].name = name => m <= k])]

----------------------------------------------------------------------------
(* ParamHelpers.addFrictionFromURDF *)

\* params[start:end] = values: numpy takes as many values as the slice is
\* long, or one value for the whole slice, and raises ValueError otherwise
AssignSlice(params, start, end, values) ==
    LET hi == IF end < Len(params) THEN end ELSE Len(params)
        n == IF start >= hi THEN 0 ELSE hi - start
    IN  IF Len(values) = n
        THEN [ok |-> TRUE,
              params |-> [k \in 1..Len(params) |->
                            IF start < k /\ k <= hi THEN values[k - start]
                            ELSE params[k]]]
        ELSE IF Len(values) = 1
        THEN [ok |-> TRUE,
              params |-> [k \in 1..Len(params) |->
                            IF start < k /\ k <= hi THEN values[1] ELSE params[k]]]
        ELSE [ok |-> FALSE, params |-> params]

\* the blocks filled in descending joint-name order
addFrictionFromURDF_desc(urdf_file, params) ==
    LET friction == getJointFriction(urdf_file)
        keys == Sorted_desc(DOMAIN friction)
        nd == model.num_dofs
        fc == [k \in 1..Len(keys) |-> friction[keys[k]].f_constant]
        fv == [k \in 1..Len(keys) |-> friction[keys[k]].f_velocity]
        a1 == AssignSlice(params, model.num_model_params, model.num_model_params + nd, fc)
        a2 == AssignSlice(a1.params, model.num_model_params + nd,
                          model.num_model_params + 2 * nd, fv)
        a3 == AssignSlice(a2.params, model.num_model_params + 2 * nd,
                          model.num_model_params + 3 * nd, fv)
    IN  IF ~a1.ok THEN [exit |-> "ValueError", params |-> params]
        ELSE IF opt.identifyGravityParamsOnly THEN [exit |-> "ok", params |-> a1.params]
        ELSE IF ~a2.ok THEN [exit |-> "ValueError", params |-> a1.params]
        ELSE IF opt.identifySymmetricVelFriction THEN [exit |-> "ok", params |-> a2.params]
        ELSE IF ~a3.ok THEN [exit |-> "ValueError", params |-> a2.params]
        ELSE [exit |-> "ok", params |-> a3.params]

\* what the call leaves in the array params, and how it ends
addFrictionFromURDF(urdf_file, params) ==
    LET friction == getJointFriction(urdf_file)
        keys == Sorted(DOMAIN friction)
        nd == model.num_dofs
        fc == [k \in 1..Len(keys) |-> friction[keys[k]].f_constant]
        fv == [k \in 1..Len(keys) |-> friction[keys[k]].f_velocity]
        a1 == AssignSlice(params, model.num_model_params, model.num_model_params + nd, fc)
        a2 == AssignSlice(a1.params, model.num_model_params + nd,
                          model.num_model_params + 2 * nd, fv)
        a3 == AssignSlice(a2.params, model.num_model_params + 2 * nd,
                          model.num_model_params + 3 * nd, fv)
    IN  IF ~a1.ok THEN [exit |-> "ValueError", params |-> params]
        ELSE IF opt.identifyGravityParamsOnly THEN [exit |-> "ok", params |-> a1.params]
        ELSE IF ~a2.ok THEN [exit |-> "ValueError", params |-> a1.params]
        ELSE IF opt.identifySymmetricVelFriction THEN [exit |-> "ok", params |-> a2.params]
        ELSE IF ~a3.ok THEN [exit |-> "ValueError", params |-> a2.params]
        ELSE [exit |-> "ok", params |-> a3.params]

----------------------------------------------------------------------------
(* URDFHelpers.replaceParamsInURDF *)

\* xStdBary[a:b] /= d, on the slice as Python clips it
DivSlice(params, a, b, d) ==
    [k \in 1..Len(params) |->
        IF a < k /\ k <= b THEN RDiv(params[k], d) ELSE params[k]]

\* gravity-only mode: for every i with i % per_link == 0, the three entries
\* after i are divided by entry i
RECURSIVE GravityBaryLoop(_, _)
GravityBaryLoop(xStdBary, i) ==
    IF i >= Len(xStdBary) THEN xStdBary
    ELSE IF i % 4 = 0
         THEN GravityBaryLoop(DivSlice(xStdBary, i + 1, i + 3 + 1, At(xStdBary, i)), i + 1)
         ELSE GravityBaryLoop(xStdBary, i + 1)

\* the link element l with its inertial attributes overwritten
WriteLink(xStdBary, l, stride) ==
    IF Contains(model.linkNames, l.name)
    THEN LET link_id == IndexOf(model.linkNames, l.name)
             l1 == [l EXCEPT
                      !.mass = Fmt(At(xStdBary, link_id * stride)),
                      !.xyz = <<Fmt(At(xStdBary, link_id * stride + 1)),
                                Fmt(At(xStdBary, link_id * stride + 2)),
                                Fmt(At(xStdBary, link_id * stride + 3))>>]
         IN  IF ~opt.identifyGravityParamsOnly
             THEN [l1 EXCEPT !.inertia =
                     [k \in 1..6 |-> Fmt(At(xStdBary, link_id * 10 + 3 + k))]]
             ELSE l1
    ELSE l

\* the asymmetric case falling through with f_v = 0.0 instead of exiting
WriteJoint_noexit(xStdBary, l, stride) ==
    IF Contains(model.jointNames, l.name)
    THEN LET joint_id == IndexOf(model.jointNames, l.name)
             f_c == IF opt.identifyFriction
                    THEN At(xStdBary, model.num_links * stride + joint_id)
                    ELSE Zero
             f_v == IF opt.identifyFriction /\ ~opt.identifyGravityParamsOnly
                       /\ opt.identifySymmetricVelFriction
                    THEN At(xStdBary, model.num_model_params + model.num_dofs + joint_id)
                    ELSE Zero
         IN  IF ~l.dynamics.present THEN [exit |-> "AttributeError", joint |-> l]
             ELSE [exit |-> "ok",
                   joint |-> [l EXCEPT !.dynamics.attrib =
                                [a \in DOMAIN l.dynamics.attrib \cup {"friction", "damping"} |->
                                    IF a = "friction" THEN Fmt(f_c)
                                    ELSE IF a = "damping" THEN Fmt(f_v)
                                    ELSE l.dynamics.attrib[a]]]]
    ELSE [exit |-> "ok", joint |-> l]

\* the joint element l with friction and damping written, or how the loop
\* body ends instead
WriteJoint(xStdBary, l, stride) ==
    IF Contains(model.jointNames, l.name)
    THEN LET joint_id == IndexOf(model.jointNames, l.name)
             f_c == IF opt.identifyFriction
                    THEN At(xStdBary, model.num_links * stride + joint_id)
                    ELSE Zero
             f_v == IF opt.identifyFriction /\ ~opt.identifyGravityParamsOnly
                    THEN At(xStdBary, model.num_model_params + model.num_dofs + joint_id)
                    ELSE Zero
         IN  IF opt.identifyFriction /\ ~opt.identifyGravityParamsOnly
                /\ ~opt.identifySymmetricVelFriction
             THEN [exit |-> "SystemExit", joint |-> l]
             ELSE IF ~l.dynamics.present THEN [exit |-> "AttributeError", joint |-> l]
             ELSE [exit |-> "ok",
                   joint |-> [l EXCEPT !.dynamics.attrib =
                                [a \in DOMAIN l.dynamics.attrib \cup {"friction", "damping"} |->
                                    IF a = "friction" THEN Fmt(f_c)
                                    ELSE IF a = "damping" THEN Fmt(f_v)
                                    ELSE l.dynamics.attrib[a]]]]
    ELSE [exit |-> "ok", joint |-> l]

\* the loop over the joint elements, stopping at the first that does not
\* end normally
RECURSIVE WriteJoints(_, _, _, _)
WriteJoints(xStdBary, joints, k, stride) ==
    IF k > Len(joints) THEN [exit |-> "ok", joints |-> joints]
    ELSE LET w == WriteJoint(xStdBary, joints[k], stride)
         IN  IF w.exit # "ok" THEN [exit |-> w.exit, joints |-> joints]
             ELSE WriteJoints(xStdBary, [joints EXCEPT ![k] = w.joint], k + 1, stride)

\* the heap after the call, how the call ended, and the tree as it stood
\* when tree.write was reached (written only then)
replaceParamsInURDF(h, input_urdf, new_params) ==
    LET stride == IF opt.identifyGravityParamsOnly THEN 4 ELSE 10
        conv == IF opt.identifyGravityParamsOnly
                THEN LET c == npcopy(h, new_params)
                     IN  [heap |-> [c.heap EXCEPT ![c.ref] = GravityBaryLoop(c.heap[c.ref], 0)],
                          ret |-> c.ref]
                ELSE paramsLink2Bary(h, new_params)
        xStdBary == conv.heap[conv.ret]
        links == [k \in 1..Len(input_urdf.links) |->
                     WriteLink(xStdBary, input_urdf.links[k], stride)]
        js == WriteJoints(xStdBary, input_urdf.joints, 1, stride)
    IN  [heap |-> conv.heap, exit |-> js.exit,
         tree |-> [links |-> links, joints |-> js.joints]]

----------------------------------------------------------------------------
(* URDFHelpers.getMeshPath, URDFHelpers.getBoundingBox.  The mesh element  *)
(* of the link is m: m.kind is "none" (no mesh element), "stl" or "dae"    *)
(* (the extension of its filename), m.scale its scale attribute (<<>> when *)
(* it has none), m.path says whether the filename is a plain path, a       *)
(* package path that resolves, or one that does not; m.onDisk whether the  *)
(* file exists and m.vertices what it holds.                               *)

\* the path of the mesh file ("" for None), self.mesh_scaling after the
\* call, and how the call ended
getMeshPath(m, scaling) ==
    IF m.kind = "none" THEN [exit |-> "ok", filepath |-> "", mesh_scaling |-> scaling]
    ELSE LET sc == IF m.scale # <<>> THEN m.scale
                   ELSE <<Fmt(R(1)), Fmt(R(1)), Fmt(R(1))>>
         IN  IF m.kind # "stl"
             THEN [exit |-> "ValueError", filepath |-> "", mesh_scaling |-> sc]
             ELSE IF m.path = "package_unresolved"
             THEN [exit |-> "ok", filepath |-> "", mesh_scaling |-> sc]
             ELSE [exit |-> "ok", filepath |-> "file", mesh_scaling |-> sc]

\* stl_mesh.x.min(), .max() for axis s (0, 1, 2)
MeshMin(vertices, s) ==
    CHOOSE x \in {v[s + 1] : v \in vertices} : \A v \in vertices : RLe(x, v[s + 1])

MeshMax(vertices, s) ==
    CHOOSE x \in {v[s + 1] : v \in vertices} : \A v \in vertices : RLe(v[s + 1], x)

\* one axis of the box, never switched
BoundingBoxAxis_noswap(vertices, s, scale_s, scale) ==
    <<RMul(RMul(MeshMin(vertices, s), scale_s), scale),
      RMul(RMul(MeshMax(vertices, s), scale_s), scale)>>

\* one axis of the box: min and max scaled, switched if the scaling is negative
BoundingBoxAxis(vertices, s, scale_s, scale) ==
    LET lo == RMul(RMul(MeshMin(vertices, s), scale_s), scale)
        hi == RMul(RMul(MeshMax(vertices, s), scale_s), scale)
    IN  IF RLt(scale_s, Zero) THEN <<hi, lo>> ELSE <<lo, hi>>

\* the box around the a priori COM used when no mesh is available
Cube(com) ==
    LET length == opt.cubeSize
        half == RMul(<<1, 2>>, length)
    IN  [k \in 1..3 |-> <<RAdd(RSub(Zero, half), com[k]), RAdd(half, com[k])>>]

\* the box returned, self.mesh_scaling after the call, and how the call ended
getBoundingBox(m, scaling, com) ==
    LET f == getMeshPath(m, scaling)
    IN  IF f.exit # "ok"
        THEN [exit |-> f.exit, box |-> <<>>, mesh_scaling |-> f.mesh_scaling]
        ELSE IF f.filepath # "" /\ m.onDisk
        THEN [exit |-> "ok", mesh_scaling |-> f.mesh_scaling,
              box |-> [k \in 1..3 |->
                         BoundingBoxAxis(m.vertices, k - 1,
                                         ParseFloat(f.mesh_scaling[k]),
                                         opt.hullScaling)]]
        ELSE [exit |-> "ok", mesh_scaling |-> f.mesh_scaling, box |-> Cube(com)]

----------------------------------------------------------------------------
(* The topology: numModelParams is the size of the link inertial block *)

NumModelParams(gravityOnly, num_links) ==
    IF gravityOnly THEN 4 * num_links ELSE 10 * num_links

----------------------------------------------------------------------------
(* Values the unused variables of a specification rest at *)

NoOpt == [identifyGravityParamsOnly |-> FALSE, identifyFriction |-> FALSE,
          identifySymmetricVelFriction |-> TRUE, hullScaling |-> R(1),
          cubeSize |-> R(1)]

NoModel == [num_links |-> 0, num_dofs |-> 0, num_model_params |-> 0,
            linkNames |-> <<>>, jointNames |-> <<>>]

NoCons == [called |-> FALSE, full |-> FALSE, ret |-> <<>>]

NoUrdf == [links |-> <<>>, joints |-> <<>>]

NoMesh == [kind |-> "none", path |-> "plain", scale |-> <<>>, onDisk |-> FALSE,
           vertices |-> {}]

IdleCfg == opt = NoOpt /\ model = NoModel

IdleConv == heap = <<>> /\ made = <<>> /\ cur = 0 /\ argv = 0 /\ per_link = 10

IdleVech == v6 = zeros6 /\ tensor = zeros3x3 /\ vec = zeros6

IdleCons == cons = NoCons /\ consNT = NoCons

IdleUrdf == urdf = NoUrdf /\ outFile = <<>> /\ exit = "none"

IdleMesh == mesh = NoMesh /\ mesh_scaling = <<>> /\ old_com = <<>> /\ bbox = <<>>

----------------------------------------------------------------------------
(* Vectorization round trip: a six-vector through invvech and vech *)

SixVectors == [1..6 -> {R(n) : n \in (-MaxVal)..MaxVal}]

InitVech ==
    /\ pc = "start"
    /\ v6 \in SixVectors
    /\ tensor = zeros3x3
    /\ vec = zeros6
    /\ IdleCfg /\ IdleConv /\ IdleCons /\ IdleUrdf /\ IdleMesh

CallInvvech ==
    /\ pc = "start"
    /\ tensor' = invvech(v6)
    /\ pc' = "invvech"
    /\ UNCHANGED <<cfgVars, convVars, v6, vec, consVars, urdfVars, meshVars>>

CallVech ==
    /\ pc = "invvech"
    /\ vec' = vech(tensor)
    /\ pc' = "vech"
    /\ UNCHANGED <<cfgVars, convVars, v6, tensor, consVars, urdfVars, meshVars>>

NextVech == CallInvvech \/ CallVech

SpecVech == InitVech /\ [][NextVech]_vars

\* C6: vech(invvech(v6)) is v6 entry for entry, and invvech(v6) is the
\* symmetric matrix with 0->(0,0), 1->(0,1)&(1,0), 2->(0,2)&(2,0), 3->(1,1),
\* 4->(1,2)&(2,1), 5->(2,2).
C6_VechRoundTrip ==
    /\ pc \in {"invvech", "vech"} =>
          /\ MGet(tensor, 0, 0) = At(v6, 0)
          /\ MGet(tensor, 0, 1) = At(v6, 1) /\ MGet(tensor, 1, 0) = At(v6, 1)
          /\ MGet(tensor, 0, 2) = At(v6, 2) /\ MGet(tensor, 2, 0) = At(v6, 2)
          /\ MGet(tensor, 1, 1) = At(v6, 3)
          /\ MGet(tensor, 1, 2) = At(v6, 4) /\ MGet(tensor, 2, 1) = At(v6, 4)
          /\ MGet(tensor, 2, 2) = At(v6, 5)
    /\ pc = "vech" => \A k \in 0..5 : At(vec, k) = At(v6, k)

\* a round trip of a six-vector whose xz and yy entries differ and that is
\* not constant
C6_Witness ==
    /\ pc = "vech"
    /\ At(v6, 2) # At(v6, 3)
    /\ At(v6, 1) # At(v6, 4)
    /\ At(v6, 0) # At(v6, 5)

----------------------------------------------------------------------------
(* Conversions: a script that holds a full-mode vector and chains          *)
(* paramsLink2Bary and paramsBary2Link, each on the vector it holds last.  *)

ConvMoments == {<<R(0), R(0), R(1)>>, <<R(1), R(-2), R(0)>>}

ConvInertias == {<<R(1), R(0), R(0), R(1), R(0), R(1)>>,
                 <<R(3), R(1), R(0), R(2), R(-1), R(4)>>}

\* the ten values of one link: mass, first moment (or com), inertia
LinkSlots(moments, inertias) ==
    {<<R(m)>> \o h \o t : m \in 0..MaxMass, h \in moments, t \in inertias}

RECURSIVE Concat(_)
Concat(ss) == IF ss = <<>> THEN <<>> ELSE Head(ss) \o Concat(Tail(ss))

\* the vectors of n links drawn from slots, followed by tail
Vectors(n, slots, tail) == {Concat(ls) \o tail : ls \in [1..n -> slots]}

\* a friction block of one joint: Coulomb and (symmetric) viscous coefficient
ConvTail(friction) == IF friction THEN <<R(3), R(5)>> ELSE <<>>

InitConv ==
    /\ pc = "start"
    /\ \E friction \in BOOLEAN, n \in 1..MaxLinks :
          /\ opt = [NoOpt EXCEPT !.identifyFriction = friction]
          /\ model = [num_links |-> n,
                      num_dofs |-> IF friction THEN 1 ELSE 0,
                      num_model_params |-> NumModelParams(FALSE, n),
                      linkNames |-> [k \in 1..n |-> k],
                      jointNames |-> IF friction THEN <<1>> ELSE <<>>]
          /\ \E v \in Vectors(n, LinkSlots(ConvMoments, ConvInertias),
                              ConvTail(friction)) :
                heap = <<v>>
    /\ made = <<>>
    /\ cur = 1
    /\ argv = 0
    /\ per_link = 10
    /\ IdleVech /\ IdleCons /\ IdleUrdf /\ IdleMesh

CallParamsLink2Bary ==
    /\ pc \in {"start", "paramsLink2Bary", "paramsBary2Link"}
    /\ Len(made) < MaxCalls
    /\ LET r == paramsLink2Bary(heap, cur)
       IN  /\ heap' = r.heap
           /\ cur' = r.ret
           /\ made' = Append(made, [op |-> "paramsLink2Bary", arg |-> cur,
                                    ret |-> r.ret, before |-> heap[cur]])
    /\ argv' = cur
    /\ pc' = "paramsLink2Bary"
    /\ UNCHANGED <<cfgVars, per_link, vechVars, consVars, urdfVars, meshVars>>

CallParamsBary2Link ==
    /\ pc \in {"start", "paramsLink2Bary", "paramsBary2Link"}
    /\ Len(made) < MaxCalls
    /\ LET r == paramsBary2Link(heap, cur)
       IN  /\ heap' = r.heap
           /\ cur' = r.ret
           /\ made' = Append(made, [op |-> "paramsBary2Link", arg |-> cur,
                                    ret |-> r.ret, before |-> heap[cur]])
    /\ argv' = cur
    /\ pc' = "paramsBary2Link"
    /\ UNCHANGED <<cfgVars, per_link, vechVars, consVars, urdfVars, meshVars>>

NextConv == CallParamsLink2Bary \/ CallParamsBary2Link

SpecConv == InitConv /\ [][NextConv]_vars

\* the slot starts of the links of the full-mode inertial block
LinkStarts == {i \in 0..(model.num_model_params - 1) : i % 10 = 0}

\* the calls of the log, by position
Calls == 1..Len(made)

\* C1 (as claimed): paramsBary2Link(paramsLink2Bary(v)) = v on every entry,
\* for every full-mode vector v whose link masses are all nonzero.
C1_RoundTrip ==
    \A k \in Calls :
        (/\ k > 1
         /\ made[k].op = "paramsBary2Link"
         /\ made[k - 1].op = "paramsLink2Bary"
         /\ made[k].arg = made[k - 1].ret
         /\ \A i \in LinkStarts : At(made[k - 1].before, i) # Zero)
        => heap[made[k].ret] = made[k - 1].before

C4_ZeroMass ==
    \A k \in Calls :
        made[k].op = "paramsLink2Bary" =>
            \A i \in LinkStarts :
                At(made[k].before, i) = Zero =>
                    /\ \A j \in 0..9 : IsFinite(At(heap[made[k].ret], i + j))
                    /\ At(heap[made[k].ret], i) = Zero
                    /\ At(heap[made[k].ret], i + 1) = Zero
                    /\ At(heap[made[k].ret], i + 2) = Zero
                    /\ At(heap[made[k].ret], i + 3) = Zero

\* paramsLink2Bary has converted a vector with a massless link whose first
\* moment is not zero
C4_Witness ==
    \E k \in Calls :
        /\ made[k].op = "paramsLink2Bary"
        /\ \E i \in LinkStarts :
              /\ At(made[k].before, i) = Zero
              /\ At(made[k].before, i + 1) # Zero
              /\ At(heap[made[k].ret], i + 1) = Zero

----------------------------------------------------------------------------
(* Consistency checks: a script that holds a vector in link-frame form and *)
(* runs the strict and the relaxed check on it, with the same full flag.   *)

ConsMasses == (-1)..(MaxMass - 1)

ConsMoments == {<<R(0), R(0), R(0)>>, <<R(0), R(0), R(2)>>}

ConsInertias == {<<R(5), R(0), R(0), R(5), R(0), R(1)>>,
                 <<R(1), R(0), R(0), R(1), R(0), R(3)>>,
                 <<R(1), R(2), R(0), R(1), R(0), R(1)>>}

\* the values of one link: four in a gravity-only vector, ten in a full one
ConsSlots(stride) ==
    IF stride = 4
    THEN {<<R(m)>> \o h : m \in ConsMasses, h \in ConsMoments}
    ELSE {<<R(m)>> \o h \o t : m \in ConsMasses, h \in ConsMoments, t \in ConsInertias}

\* the friction block of one joint: Coulomb, and viscous in a full-mode model
ConsTail(gravityOnly) == IF gravityOnly THEN <<R(3)>> ELSE <<R(3), R(5)>>

InitCons ==
    /\ pc = "start"
    /\ \E gravityOnly \in BOOLEAN, n \in 1..MaxLinks, stride \in {4, 10} :
          /\ ~gravityOnly => stride = 10
          /\ opt = [NoOpt EXCEPT !.identifyGravityParamsOnly = gravityOnly,
                                 !.identifyFriction = TRUE]
          /\ model = [num_links |-> n, num_dofs |-> 1,
                      num_model_params |-> NumModelParams(gravityOnly, n),
                      linkNames |-> [k \in 1..n |-> k],
                      jointNames |-> <<1>>]
          /\ per_link = stride
          /\ \E v \in Vectors(n, ConsSlots(stride), ConsTail(gravityOnly)) :
                heap = <<v>>
    /\ made = <<>>
    /\ cur = 1
    /\ argv = 0
    /\ cons = NoCons
    /\ consNT = NoCons
    /\ IdleVech /\ IdleUrdf /\ IdleMesh

\* the caller passes full=True with a ten-per-link vector in a gravity-only
\* model, and a vector of the model's own layout otherwise
FullFits(full) ==
    IF opt.identifyGravityParamsOnly THEN full = (per_link = 10) ELSE per_link = 10

CallCheckPhysicalConsistency ==
    /\ pc = "start"
    /\ \E full \in BOOLEAN :
          /\ FullFits(full)
          /\ cons' = [called |-> TRUE, full |-> full,
                      ret |-> checkPhysicalConsistency(heap[cur], full)]
    /\ pc' = "checkPhysicalConsistency"
    /\ UNCHANGED <<cfgVars, convVars, vechVars, consNT, urdfVars, meshVars>>

CallCheckPhysicalConsistencyNoTriangle ==
    /\ pc = "checkPhysicalConsistency"
    /\ consNT' = [called |-> TRUE, full |-> cons.full,
                  ret |-> checkPhysicalConsistencyNoTriangle(heap[cur], cons.full)]
    /\ pc' = "checkPhysicalConsistencyNoTriangle"
    /\ UNCHANGED <<cfgVars, convVars, vechVars, cons, urdfVars, meshVars>>

NextCons == CallCheckPhysicalConsistency \/ CallCheckPhysicalConsistencyNoTriangle

SpecCons == InitCons /\ [][NextCons]_vars

\* the ten values of link k of the vector the checks were given
LinkSlot(k) == Slice(heap[cur], 10 * k, 10 * k + 10)

\* C2: for a ten-per-link vector, every link the strict check marks
\* consistent is marked consistent by the relaxed check too.
C2_StrictImpliesRelaxed ==
    (cons.called /\ consNT.called /\ per_link = 10) =>
        \A k \in DOMAIN cons.ret :
            cons.ret[k] => (k \in DOMAIN consNT.ret /\ consNT.ret[k])

\* both checks have run on a full-mode vector of two links: one passes the
\* strict check, the other passes the relaxed check only (the converse of C2
\* fails there)
C2_Witness ==
    /\ cons.called /\ consNT.called /\ per_link = 10
    /\ \E k \in DOMAIN cons.ret : cons.ret[k] /\ consNT.ret[k]
    /\ \E k \in DOMAIN cons.ret : ~cons.ret[k] /\ consNT.ret[k]

\* C8 (as claimed): both checks return exactly one boolean per link index
\* 0..numLinks-1, whatever the gravity-only option and the full argument; in
\* gravity-only mode (four values per link) entry i is true iff the mass
\* entry at offset 4*i is strictly positive.
C8_OneEntryPerLink ==
    /\ cons.called =>
          /\ DOMAIN cons.ret = 0..(model.num_links - 1)
          /\ \A k \in DOMAIN cons.ret : cons.ret[k] \in BOOLEAN
          /\ (opt.identifyGravityParamsOnly /\ ~cons.full) =>
                \A k \in DOMAIN cons.ret :
                    cons.ret[k] = RGt(At(heap[cur], 4 * k), Zero)
    /\ consNT.called =>
          /\ DOMAIN consNT.ret = 0..(model.num_links - 1)
          /\ \A k \in DOMAIN consNT.ret : consNT.ret[k] \in BOOLEAN
          /\ (opt.identifyGravityParamsOnly /\ ~consNT.full) =>
                \A k \in DOMAIN consNT.ret :
                    consNT.ret[k] = RGt(At(heap[cur], 4 * k), Zero)

\* C10 (as claimed): in full mode the relaxed check marks a link with
\* mass <= 0 invalid, and a link with mass > 0 valid iff its inertia tensor
\* about the center of mass is positive-definite.
C10_RelaxedIsComPositiveDefinite ==
    (consNT.called /\ ~opt.identifyGravityParamsOnly) =>
        \A k \in DOMAIN consNT.ret :
            consNT.ret[k] =
                (/\ RGt(At(LinkSlot(k), 0), Zero)
                 /\ PositiveDefinite(
                        getRotationalInertiaWrtCenterOfMass(fromVector(LinkSlot(k)))))

----------------------------------------------------------------------------
(* The document: a script that holds a vector in link-frame form and a     *)
(* robot description, reads the friction of the description into the       *)
(* vector (when friction is identified) and writes the vector back into a  *)
(* new description.                                                        *)

\* the values of one link: four in a gravity-only vector, ten in a full one
UrdfSlots(stride) ==
    IF stride = 4
    THEN {<<R(2), R(0), R(0), R(1)>>, <<R(0), R(1), R(0), R(0)>>}
    ELSE {<<R(2), R(0), R(0), R(1), R(1), R(0), R(0), R(1), R(0), R(1)>>,
          <<R(0), R(1), R(0), R(0), R(3), R(1), R(0), R(2), R(-1), R(4)>>}

\* the friction blocks as the estimator left them: Coulomb, viscous, and the
\* second viscous half of an asymmetric model
UrdfTail(friction, gravityOnly, symmetric, nd) ==
    IF ~friction THEN <<>>
    ELSE [j \in 1..nd |-> R(20 + j)]
         \o (IF gravityOnly THEN <<>> ELSE [j \in 1..nd |-> R(30 + j)])
         \o (IF gravityOnly \/ symmetric THEN <<>> ELSE [j \in 1..nd |-> R(40 + j)])

\* a link element as the description holds it before the write
DocLink(name) ==
    [name |-> name, mass |-> Fmt(R(9)), xyz |-> <<Fmt(R(9)), Fmt(R(9)), Fmt(R(9))>>,
     inertia |-> [k \in 1..6 |-> Fmt(R(9))]]

\* the links of the description: one the topology does not know (name 0),
\* then the topology's links, last first
DocLinks(n) == <<DocLink(0)>> \o [k \in 1..n |-> DocLink(n + 1 - k)]

\* what the description may say about joint j: friction and damping, damping
\* alone, no dynamics element, or nothing at all (the joint is not in it)
DynChoices == {"both", "damping", "nodynamics", "absent"}

DocJoint(j, choice) ==
    [name |-> j, type |-> "revolute",
     dynamics |->
        IF choice = "both"
        THEN [present |-> TRUE,
              attrib |-> [a \in {"friction", "damping"} |->
                            IF a = "friction" THEN Fmt(R(j)) ELSE Fmt(R(10 + j))]]
        ELSE IF choice = "damping"
        THEN [present |-> TRUE, attrib |-> [a \in {"damping"} |-> Fmt(R(10 + j))]]
        ELSE [present |-> FALSE, attrib |-> <<>>]]

\* a fixed joint the topology does not know, with a dynamics element
FixedJoint(nd) ==
    [name |-> nd + 1, type |-> "fixed",
     dynamics |-> [present |-> TRUE,
                   attrib |-> [a \in {"friction"} |-> Fmt(R(7))]]]

\* the joints of the description: the fixed joint, then the joints chosen,
\* last name first
RECURSIVE DocJointsFrom(_, _)
DocJointsFrom(j, choice) ==
    IF j = 0 THEN <<>>
    ELSE (IF choice[j] = "absent" THEN <<>> ELSE <<DocJoint(j, choice[j])>>)
         \o DocJointsFrom(j - 1, choice)

DocJoints(nd, choice) == <<FixedJoint(nd)>> \o DocJointsFrom(nd, choice)

InitUrdf ==
    /\ pc = "start"
    /\ \E gravityOnly \in BOOLEAN, friction \in BOOLEAN, symmetric \in BOOLEAN,
          n \in 1..MaxLinks, nd \in 1..MaxDofs, reversed \in BOOLEAN :
          /\ opt = [NoOpt EXCEPT !.identifyGravityParamsOnly = gravityOnly,
                                 !.identifyFriction = friction,
                                 !.identifySymmetricVelFriction = symmetric]
          /\ model = [num_links |-> n, num_dofs |-> nd,
                      num_model_params |-> NumModelParams(gravityOnly, n),
                      linkNames |-> [k \in 1..n |-> k],
                      jointNames |-> [k \in 1..nd |->
                                        IF reversed THEN nd + 1 - k ELSE k]]
          /\ per_link = IF gravityOnly THEN 4 ELSE 10
          /\ \E v \in Vectors(n, UrdfSlots(IF gravityOnly THEN 4 ELSE 10),
                              UrdfTail(friction, gravityOnly, symmetric, nd)) :
                heap = <<v>>
          /\ \E choice \in [1..nd -> DynChoices] :
                urdf = [links |-> DocLinks(n), joints |-> DocJoints(nd, choice)]
    /\ made = <<>>
    /\ cur = 1
    /\ argv = 0
    /\ outFile = <<>>
    /\ exit = "none"
    /\ IdleVech /\ IdleCons /\ IdleMesh

\* called when friction is identified: the vector then has friction blocks
CallAddFrictionFromURDF ==
    /\ pc = "start"
    /\ opt.identifyFriction
    /\ LET r == addFrictionFromURDF(urdf, heap[cur])
       IN  /\ heap' = [heap EXCEPT ![cur] = r.params]
           /\ exit' = r.exit
           /\ made' = Append(made, [op |-> "addFrictionFromURDF", arg |-> cur,
                                    ret |-> cur, before |-> heap[cur]])
    /\ argv' = cur
    /\ pc' = "addFrictionFromURDF"
    /\ UNCHANGED <<cfgVars, cur, per_link, vechVars, consVars, urdf, outFile, meshVars>>

\* not reached when addFrictionFromURDF raised
CallReplaceParamsInURDF ==
    /\ pc \in {"start", "addFrictionFromURDF"}
    /\ exit \in {"none", "ok"}
    /\ LET r == replaceParamsInURDF(heap, urdf, cur)
       IN  /\ heap' = r.heap
           /\ exit' = r.exit
           /\ outFile' = IF r.exit = "ok" THEN <<r.tree>> ELSE outFile
           /\ made' = Append(made, [op |-> "replaceParamsInURDF", arg |-> cur,
                                    ret |-> Len(r.heap), before |-> heap[cur]])
    /\ argv' = cur
    /\ pc' = "replaceParamsInURDF"
    /\ UNCHANGED <<cfgVars, cur, per_link, vechVars, consVars, urdf, meshVars>>

NextUrdf == CallAddFrictionFromURDF \/ CallReplaceParamsInURDF

SpecUrdf == InitUrdf /\ [][NextUrdf]_vars

\* the description has a joint element the topology knows
HasTopologyJoint ==
    \E k \in 1..Len(urdf.joints) : Contains(model.jointNames, urdf.joints[k].name)

\* C5: with friction identified, full mode and asymmetric viscous friction,
\* replaceParamsInURDF on a description with a topology joint ends in
\* sys.exit and writes no document.
C5_AsymmetricAborts ==
    (/\ pc = "replaceParamsInURDF"
     /\ opt.identifyFriction
     /\ ~opt.identifyGravityParamsOnly
     /\ ~opt.identifySymmetricVelFriction
     /\ HasTopologyJoint)
    => (exit = "SystemExit" /\ outFile = <<>>)

\* replaceParamsInURDF has been called in that mode on a description with a
\* topology joint that has a dynamics element, and has exited
C5_Witness ==
    /\ pc = "replaceParamsInURDF"
    /\ opt.identifyFriction
    /\ ~opt.identifyGravityParamsOnly
    /\ ~opt.identifySymmetricVelFriction
    /\ \E k \in 1..Len(urdf.joints) :
          /\ Contains(model.jointNames, urdf.joints[k].name)
          /\ urdf.joints[k].dynamics.present
    /\ exit = "SystemExit"

\* the revolute joints of the description that have a dynamics element
FrictionJoints ==
    {k \in 1..Len(urdf.joints) :
        urdf.joints[k].type = "revolute" /\ urdf.joints[k].dynamics.present}

\* how many of those joints have a smaller name than joint element k
NameRank(k) ==
    Cardinality({m \in FrictionJoints : urdf.joints[m].name < urdf.joints[k].name})

\* the coefficient the description gives joint element k, 0 if it gives none
DocCoefficient(k, a) ==
    IF a \in DOMAIN urdf.joints[k].dynamics.attrib
    THEN urdf.joints[k].dynamics.attrib[a].repr
    ELSE Zero

\* addFrictionFromURDF has returned in full mode, on a description that
\* gives dynamics for as many revolute joints as the model has dofs
FrictionRead ==
    /\ pc = "addFrictionFromURDF"
    /\ exit = "ok"
    /\ ~opt.identifyGravityParamsOnly
    /\ Cardinality(FrictionJoints) = model.num_dofs

\* the Coulomb block and the viscous block hold the description's
\* coefficients in sorted joint-name order
BlocksInNameOrder ==
    \A k \in FrictionJoints :
        /\ At(heap[cur], model.num_model_params + NameRank(k))
              = DocCoefficient(k, "friction")
        /\ At(heap[cur], model.num_model_params + model.num_dofs + NameRank(k))
              = DocCoefficient(k, "damping")

\* the second half of the velocity-dependent block holds the viscous
\* coefficients too
SecondHalfDuplicated ==
    /\ Len(heap[cur]) >= model.num_model_params + 3 * model.num_dofs
    /\ \A k \in FrictionJoints :
          At(heap[cur], model.num_model_params + 2 * model.num_dofs + NameRank(k))
              = DocCoefficient(k, "damping")

----------------------------------------------------------------------------
(* The bounding box: a script that asks for the box of one link. *)

HullScalings == {R(1), <<3, 2>>, R(-1)}

MeshPoints == {<<R(-1), R(0), R(2)>>, <<R(1), R(-2), R(0)>>, <<R(0), R(1), R(-1)>>}

MeshScales ==
    {<<>>} \cup {<<Fmt(R(x)), Fmt(R(y)), Fmt(R(z))>> :
                    x \in (-MaxScale)..MaxScale, y \in (-MaxScale)..MaxScale,
                    z \in (-MaxScale)..MaxScale}

Meshes ==
    {NoMesh}
    \cup {[kind |-> "dae", path |-> "plain", scale |-> <<>>, onDisk |-> TRUE,
           vertices |-> MeshPoints]}
    \cup {[kind |-> "stl", path |-> p, scale |-> sc, onDisk |-> d, vertices |-> vs] :
            p \in {"plain", "package", "package_unresolved"}, sc \in MeshScales,
            d \in BOOLEAN, vs \in (SUBSET MeshPoints) \ {{}}}

InitMesh ==
    /\ pc = "start"
    /\ \E h \in HullScalings :
          opt = [NoOpt EXCEPT !.hullScaling = h, !.cubeSize = R(3)]
    /\ model = [num_links |-> 1, num_dofs |-> 0,
                num_model_params |-> NumModelParams(FALSE, 1),
                linkNames |-> <<1>>, jointNames |-> <<>>]
    /\ mesh \in Meshes
    /\ mesh_scaling = <<>>
    /\ old_com \in {<<R(0), R(0), R(0)>>, <<R(1), R(-1), R(2)>>}
    /\ bbox = <<>>
    /\ IdleConv /\ IdleVech /\ IdleCons /\ IdleUrdf

CallGetBoundingBox ==
    /\ pc = "start"
    /\ LET r == getBoundingBox(mesh, mesh_scaling, old_com)
       IN  /\ bbox' = r.box
           /\ mesh_scaling' = r.mesh_scaling
           /\ exit' = r.exit
    /\ pc' = "getBoundingBox"
    /\ UNCHANGED <<cfgVars, convVars, vechVars, consVars, urdf, outFile, mesh, old_com>>

NextMesh == CallGetBoundingBox

SpecMesh == InitMesh /\ [][NextMesh]_vars

\* the mesh of the link was loaded
MeshLoaded ==
    /\ pc = "getBoundingBox"
    /\ exit = "ok"
    /\ mesh.kind = "stl"
    /\ mesh.path # "package_unresolved"
    /\ mesh.onDisk

\* the scale factor of axis s: the scale attribute, 1 when there is none
ScaleOf(s) == IF mesh.scale = <<>> THEN R(1) ELSE mesh.scale[s + 1].repr

\* the least and the greatest coordinate of the mesh on axis s
RawMin(s) == CHOOSE x \in {v[s + 1] : v \in mesh.vertices} :
                 \A y \in {v[s + 1] : v \in mesh.vertices} : ~RLt(y, x)

RawMax(s) == CHOOSE x \in {v[s + 1] : v \in mesh.vertices} :
                 \A y \in {v[s + 1] : v \in mesh.vertices} : ~RLt(x, y)

\* C9: with a loadable mesh, an axis whose scale factor is negative returns
\* (rawMax*scale*hullScaling, rawMin*scale*hullScaling), every other axis
\* (rawMin*scale*hullScaling, rawMax*scale*hullScaling); for a positive
\* hullScaling the first element of each pair is <= the second.
C9_NegativeScaleSwaps ==
    MeshLoaded =>
        \A s \in 0..2 :
            LET lo == RMul(RMul(RawMin(s), ScaleOf(s)), opt.hullScaling)
                hi == RMul(RMul(RawMax(s), ScaleOf(s)), opt.hullScaling)
            IN  /\ RLt(ScaleOf(s), Zero) => bbox[s + 1] = <<hi, lo>>
                /\ ~RLt(ScaleOf(s), Zero) => bbox[s + 1] = <<lo, hi>>
                /\ RGt(opt.hullScaling, Zero) => RLe(bbox[s + 1][1], bbox[s + 1][2])

\* a box of a mesh scaled negatively on the x axis alone, with a positive
\* hull scaling: the x pair is switched and not degenerate
C9_Witness ==
    /\ MeshLoaded
    /\ RGt(opt.hullScaling, Zero)
    /\ RLt(ScaleOf(0), Zero) /\ RGt(ScaleOf(1), Zero) /\ RGt(ScaleOf(2), Zero)
    /\ RawMin(0) # RawMax(0)
    /\ bbox[1] = <<RMul(RMul(RawMax(0), ScaleOf(0)), opt.hullScaling),
                   RMul(RMul(RawMin(0), ScaleOf(0)), opt.hullScaling)>>
    /\ RLt(bbox[1][1], bbox[1][2])

----------------------------------------------------------------------------
(* The gravity-only write: what replaceParamsInURDF makes of the vector it *)
(* was given.                                                              *)

\* replaceParamsInURDF was the last call, in a gravity-only model with
\* friction identified, and it reached tree.write
GravityWriteDone ==
    /\ pc = "replaceParamsInURDF"
    /\ exit = "ok"
    /\ opt.identifyGravityParamsOnly
    /\ opt.identifyFriction

\* the vector replaceParamsInURDF was given, and its converted copy
WriteInput == made[Len(made)].before

WriteConverted == heap[made[Len(made)].ret]

\* C11 (as claimed): in gravity-only mode with friction identified,
\* replaceParamsInURDF divides only the three COM-moment entries of each link
\* by that link's mass and leaves every entry outside the link inertial block
\* unchanged, so the Coulomb coefficient written for topology joint j is the
\* input vector's entry at offset numLinks*4 + j, for every joint and every
\* number of degrees of freedom.
C11_GravityOnlyCoulombUnchanged ==
    GravityWriteDone =>
        /\ \A k \in 0..(Len(WriteInput) - 1) :
              At(WriteConverted, k) =
                  IF k < 4 * model.num_links /\ k % 4 # 0
                  THEN RDiv(At(WriteInput, k), At(WriteInput, k - (k % 4)))
                  ELSE At(WriteInput, k)
        /\ \A k \in 1..Len(outFile[1].joints) :
              LET l == outFile[1].joints[k]
              IN  Contains(model.jointNames, l.name) =>
                      l.dynamics.attrib["friction"] =
                          Fmt(At(WriteInput,
                                 model.num_links * 4 + IndexOf(model.jointNames, l.name)))

====
